---- MODULE Spec2Model ----
(***************************************************************************)
(* Model of the ubt-server session coordinator (the server with the input  *)
(* relay: type Player with Keys/Left, handleRequest, runFSM).              *)
(*                                                                         *)
(* One process per accepted connection (a goroutine running handleRequest).*)
(* A *Player is the address of the `player` variable of the handleRequest  *)
(* call that built it, so a record is named by the connection that         *)
(* admitted it; NIL is the nil pointer.  Fields of a record are read and   *)
(* written without the room lock by every session that holds the pointer,  *)
(* so each shared read or write is a step of its own.                      *)
(***************************************************************************)
EXTENDS Integers, Sequences, FiniteSets, TLC

\* ------------------------------------------------------------ bounds
NumConns == 3
Arrivals == 2
FloodConns == 2
MaxKeys == 2

Conns == 1..NumConns
NIL == 0

\* ------------------------------------------------- program constants
Max == 1
Drax == 2

stateSelect == 1
stateWaitPlayers == 2
stateSync == 3
statePlay == 4

ESuccess == 1
ETooManyPlayers == 2
ESelect == 3
ENotReady == 4
EInternal == 5

KeysCap == 16

\* Character.String()
CharString(ch) ==
    IF ch = Max THEN "max" ELSE IF ch = Drax THEN "drax" ELSE "<unknown>"

\* ------------------------------------------------- client messages
\* What one conn.Read returns: eof (the read failed), or the bytes of a
\* frame.  A frame is kept as the JSON fields the decoders look at:
\* json = it parses as a JSON object; charNum # 0 = "character" holds a
\* number; charStr # "" = "character" holds a string.
Frame(j, n, cn, cs, p, k) ==
    [eof |-> FALSE, json |-> j, name |-> n, charNum |-> cn, charStr |-> cs,
     player |-> p, key |-> k]

EOF == [eof |-> TRUE, json |-> FALSE, name |-> "", charNum |-> 0, charStr |-> "",
        player |-> "", key |-> ""]
Garbage == Frame(FALSE, "", 0, "", "", "")
ConnectReq(n, cn) == Frame(TRUE, n, cn, "", "", "")
SelectReq(cs) == Frame(TRUE, "", 0, cs, "", "")
PollReq == Frame(TRUE, "", 0, "", "", "")
BindReq(p) == Frame(TRUE, "", 0, "", p, "")
KeyReq(k) == Frame(TRUE, "", 0, "", "", k)
\* a buffer not holding a frame
NoFrame == Garbage

Names == {"alice", "bob"}
NameKeys == Names \cup {"", "carol"}
KeyTokens == {"up", "jump"}

Msgs ==
    {ConnectReq(n, 0) : n \in Names} \cup {ConnectReq("bob", Drax)}
    \cup {SelectReq(cs) : cs \in {"max", "drax", "Max"}}
    \cup {PollReq, Garbage}
    \cup {BindReq(p) : p \in {"alice", "bob", "carol"}}
    \cup {KeyReq(k) : k \in KeyTokens}

\* json.Unmarshal(buf, &player): a string in "character" does not fit the
\* int field Character.
PlayerDecodeErr(m) == ~m.json \/ m.charStr # ""
\* json.Unmarshal(buf, &message) for selectMessage: a number does not fit
\* the string field Character.
SelectDecodeErr(m) == ~m.json \/ m.charNum # 0
\* json.Unmarshal(data, &dataObj) for getInfoMessage
InfoDecodeErr(m) == ~m.json
\* json.Unmarshal(data, &info) for map[string]string
KeyDecodeErr(m) == ~m.json \/ m.charNum # 0

\* getPlayerCharSelect with the two names exchanged
CharSelectSwapped(m) ==
    IF m.eof \/ SelectDecodeErr(m) THEN 0
    ELSE IF m.charStr = "drax" THEN Max
    ELSE IF m.charStr = "max" THEN Drax
    ELSE 0

\* getPlayerCharSelect: the Character returned (0 with an error)
CharSelect(m) ==
    IF m.eof \/ SelectDecodeErr(m) THEN 0
    ELSE IF m.charStr = "drax" THEN Drax
    ELSE IF m.charStr = "max" THEN Max
    ELSE 0

\* ------------------------------------------------- server messages
Reply(kind, code, left, player, character, key) ==
    [kind |-> kind, code |-> code, left |-> left, player |-> player,
     character |-> character, key |-> key]
StatusMsg(code) == Reply("status", code, FALSE, "", "", "")
ConnectMsg(left) == Reply("connect", ESuccess, left, "", "", "")
SelectedMsg(p, ch) == Reply("select", ESuccess, FALSE, p, ch, "")
KeyMsg(k) == Reply("key", 0, FALSE, "", "", k)

VARIABLES
    players,    \* game.players: name -> *Player (NIL = no entry)
    lock,       \* game.Mutex: NIL, or the connection whose goroutine holds it
    rec,        \* the Player value built by each connection's handleRequest
    pc,         \* where each connection's goroutine stands
    alive,      \* the peer has not closed the connection
    full,       \* handleRequest found len(game.players) == 2
    bound,      \* handleRequest's `player` in the full-room branch
    fsmPlayer,  \* runFSM's player
    fsmOther,   \* runFSM's otherPlayer
    remote,     \* runFSM's remote
    sel,        \* the frame getPlayerCharSelect read (its buf)
    char,       \* runFSM's char (stateSelect)
    key,        \* runFSM's key (statePlay, local mode)
    out,        \* what the server wrote to the connection in the current iteration of runFSM's loop
    pollReady,  \* the poll being served was read with 2 records and the opponent's character set
    pushed,     \* per record: every token sent on its Keys channel, in order
    delivered,  \* per record: every token received from its Keys channel, in order
    scn         \* how many frames of Script the clients have sent

vars == <<players, lock, rec, pc, alive, full, bound, fsmPlayer, fsmOther, remote,
          sel, char, key, out, pollReady, pushed, delivered, scn>>

ZeroPlayer == [Name |-> "", Character |-> 0, Left |-> FALSE, state |-> 0, Keys |-> <<>>]

Init ==
    /\ players = [n \in NameKeys |-> NIL]
    /\ lock = NIL
    /\ rec = [c \in Conns |-> ZeroPlayer]
    /\ pc = [c \in Conns |-> "accept"]
    /\ alive = [c \in Conns |-> TRUE]
    /\ full = [c \in Conns |-> FALSE]
    /\ bound = [c \in Conns |-> NIL]
    /\ fsmPlayer = [c \in Conns |-> NIL]
    /\ fsmOther = [c \in Conns |-> NIL]
    /\ remote = [c \in Conns |-> FALSE]
    /\ sel = [c \in Conns |-> NoFrame]
    /\ char = [c \in Conns |-> 0]
    /\ key = [c \in Conns |-> ""]
    /\ out = [c \in Conns |-> <<>>]
    /\ pollReady = [c \in Conns |-> FALSE]
    /\ pushed = [c \in Conns |-> <<>>]
    /\ delivered = [c \in Conns |-> <<>>]
    /\ scn = 0

\* len(game.players)
NumPlayers == Cardinality({n \in NameKeys : players[n] # NIL})
\* the *Player values of the map
Records == {players[n] : n \in NameKeys} \ {NIL}

\* What conn.Read can return: a frame while the peer is there, an error after.
Inputs(c) == IF alive[c] THEN Msgs ELSE {EOF}
\* Whether conn.Write can succeed: always while the peer is there; after
\* the peer closed the write may still be buffered or fail.
WriteOks(c) == IF alive[c] THEN {TRUE} ELSE BOOLEAN

\* `for _, p := range game.players { if p == player { continue }; otherPlayer = p }`:
\* the values otherPlayer can hold after the loop (map order is unspecified)
RangeOther(player, prev) ==
    IF Records \ {player} = {} THEN {prev} ELSE Records \ {player}

Sent(c, ok, m) == IF ok THEN Append(out[c], m) ELSE out[c]


\* ------------------------------------------------- handleRequest
\* HrLock with the capacity test written `> 2`
HrLockOffByOne(c) ==
    /\ pc[c] = "accept"
    /\ lock = NIL
    /\ IF NumPlayers > 2
         THEN /\ full' = [full EXCEPT ![c] = TRUE]
              /\ pc' = [pc EXCEPT ![c] = "bindRead"]
              /\ lock' = NIL
         ELSE /\ lock' = c
              /\ pc' = [pc EXCEPT ![c] = "getPlayer"]
              /\ full' = full
    /\ UNCHANGED <<sel, players, rec, alive, bound, fsmPlayer, fsmOther, remote, char, key,
                   out, pollReady, pushed, delivered, scn>>

\* HrLock with the full room answered by toManyPlayers(conn); return
HrLockReject(c) ==
    /\ pc[c] = "accept"
    /\ lock = NIL
    /\ IF NumPlayers = 2
         THEN /\ full' = [full EXCEPT ![c] = TRUE]
              /\ pc' = [pc EXCEPT ![c] = "done"]
              /\ out' = [out EXCEPT ![c] = <<StatusMsg(ETooManyPlayers)>>]
              /\ lock' = NIL
         ELSE /\ lock' = c
              /\ pc' = [pc EXCEPT ![c] = "getPlayer"]
              /\ UNCHANGED <<full, out>>
    /\ UNCHANGED <<sel, players, rec, alive, bound, fsmPlayer, fsmOther, remote, char, key,
                   pollReady, pushed, delivered, scn>>

\* game.Lock(); if len(game.players) == 2 { game.Unlock(); ... }
HrLock(c) ==
    /\ pc[c] = "accept"
    /\ lock = NIL
    /\ IF NumPlayers = 2
         THEN /\ full' = [full EXCEPT ![c] = TRUE]
              /\ pc' = [pc EXCEPT ![c] = "bindRead"]
              /\ lock' = NIL
         ELSE /\ lock' = c
              /\ pc' = [pc EXCEPT ![c] = "getPlayer"]
              /\ full' = full
    /\ UNCHANGED <<sel, players, rec, alive, bound, fsmPlayer, fsmOther, remote, char, key,
                   out, pollReady, pushed, delivered, scn>>

\* player.Left taken from the length of the map before the insertion
LeftBeforeInsert(n) == NumPlayers = 1

\* player.Left after the insertion: true iff the map then holds one record
LeftAfterInsert(n) == Cardinality({k \in NameKeys : players[k] # NIL} \cup {n}) = 1

\* getPlayer(conn), player.state = stateSelect, the insertion and player.Left,
\* all with the lock held; an error returns without game.Unlock()
GetPlayer(c, m) ==
    /\ pc[c] = "getPlayer"
    /\ IF m.eof \/ PlayerDecodeErr(m)
         THEN /\ pc' = [pc EXCEPT ![c] = "done"]
              /\ UNCHANGED <<players, rec>>
         ELSE /\ rec' = [rec EXCEPT ![c] =
                            [Name |-> m.name, Character |-> m.charNum,
                             Left |-> LeftAfterInsert(m.name),
                             state |-> stateSelect, Keys |-> <<>>]]
              /\ players' = [players EXCEPT ![m.name] = c]
              /\ pc' = [pc EXCEPT ![c] = "connResp"]
    /\ UNCHANGED <<sel, lock, alive, full, bound, fsmPlayer, fsmOther, remote, char, key,
                   out, pollReady, pushed, delivered>>

\* sendConnectSuccess(conn, player.Left); an error returns without
\* game.Unlock(); else game.Unlock() and runFSM(game, &player, nil, conn, false)
ConnResp(c) ==
    /\ pc[c] = "connResp"
    /\ \E ok \in WriteOks(c) :
         IF ok
           THEN /\ out' = [out EXCEPT ![c] = <<ConnectMsg(rec[c].Left)>>]
                /\ lock' = NIL
                /\ fsmPlayer' = [fsmPlayer EXCEPT ![c] = c]
                /\ fsmOther' = [fsmOther EXCEPT ![c] = NIL]
                /\ remote' = [remote EXCEPT ![c] = FALSE]
                /\ pc' = [pc EXCEPT ![c] = "fsmTop"]
           ELSE /\ pc' = [pc EXCEPT ![c] = "done"]
                /\ UNCHANGED <<out, lock, fsmPlayer, fsmOther, remote>>
    /\ UNCHANGED <<sel, players, rec, alive, full, bound, char, key, pollReady, pushed,
                   delivered, scn>>

\* full room: readMessage, json.Unmarshal into getInfoMessage,
\* game.players[dataObj.Player]
BindRead(c, m) ==
    /\ pc[c] = "bindRead"
    /\ IF m.eof \/ InfoDecodeErr(m) \/ players[m.player] = NIL
         THEN /\ pc' = [pc EXCEPT ![c] = "done"]
              /\ bound' = bound
         ELSE /\ bound' = [bound EXCEPT ![c] = players[m.player]]
              /\ pc' = [pc EXCEPT ![c] = "bindLock"]
    /\ UNCHANGED <<sel, players, lock, rec, alive, full, fsmPlayer, fsmOther, remote, char,
                   key, out, pollReady, pushed, delivered>>

\* game.Lock(); the range loop; game.Unlock();
\* runFSM(game, otherPlayer, player, conn, true)
BindLock(c) ==
    /\ pc[c] = "bindLock"
    /\ lock = NIL
    /\ \E o \in RangeOther(bound[c], NIL) :
         /\ o # NIL
         /\ fsmPlayer' = [fsmPlayer EXCEPT ![c] = o]
    /\ fsmOther' = [fsmOther EXCEPT ![c] = bound[c]]
    /\ remote' = [remote EXCEPT ![c] = TRUE]
    /\ bound' = [bound EXCEPT ![c] = NIL]
    /\ pc' = [pc EXCEPT ![c] = "fsmTop"]
    /\ UNCHANGED <<sel, players, lock, rec, alive, full, char, key, out, pollReady,
                   pushed, delivered, scn>>

\* ------------------------------------------------- runFSM
\* switch player.state
FsmDispatch(s, rem) ==
    IF s = stateSelect THEN "selRead"
    ELSE IF s = stateWaitPlayers THEN "waitRead"
    ELSE IF s = statePlay THEN (IF rem THEN "playFwd" ELSE "playRead")
    ELSE "fsmTop"

FsmTop(c) ==
    /\ pc[c] = "fsmTop"
    /\ pc' = [pc EXCEPT ![c] = FsmDispatch(rec[fsmPlayer[c]].state, remote[c])]
    /\ out' = [out EXCEPT ![c] = <<>>]
    /\ pollReady' = [pollReady EXCEPT ![c] = FALSE]
    /\ UNCHANGED <<sel, players, lock, rec, alive, full, bound, fsmPlayer, fsmOther, remote,
                   char, key, pushed, delivered, scn>>

\* stateSelect: char, err := getPlayerCharSelect(conn); on err the ESelect
\* status is sent, and control goes on to the lines below the if
SelRead(c, m) ==
    /\ pc[c] = "selRead"
    /\ sel' = [sel EXCEPT ![c] = m]
    /\ char' = [char EXCEPT ![c] = CharSelect(m)]
    /\ \E ok \in WriteOks(c) :
         out' = [out EXCEPT ![c] = Sent(c, CharSelect(m) = 0 /\ ok, StatusMsg(ESelect))]
    /\ pc' = [pc EXCEPT ![c] = "selSetChar"]
    /\ UNCHANGED <<players, lock, rec, alive, full, bound, fsmPlayer, fsmOther, remote,
                   key, pollReady, pushed, delivered>>

\* player.Character = char; sendSuccess(conn)
SelSetChar(c) ==
    /\ pc[c] = "selSetChar"
    /\ rec' = [rec EXCEPT ![fsmPlayer[c]].Character = char[c]]
    /\ \E ok \in WriteOks(c) :
         out' = [out EXCEPT ![c] = Sent(c, ok, StatusMsg(ESuccess))]
    /\ char' = [char EXCEPT ![c] = 0]
    /\ sel' = [sel EXCEPT ![c] = NoFrame]
    /\ pc' = [pc EXCEPT ![c] = "selSetState"]
    /\ UNCHANGED <<players, lock, alive, full, bound, fsmPlayer, fsmOther, remote, key,
                   pollReady, pushed, delivered, scn>>

\* player.state = stateWaitPlayers
SelSetState(c) ==
    /\ pc[c] = "selSetState"
    /\ rec' = [rec EXCEPT ![fsmPlayer[c]].state = stateWaitPlayers]
    /\ pc' = [pc EXCEPT ![c] = "fsmTop"]
    /\ UNCHANGED <<sel, players, lock, alive, full, bound, fsmPlayer, fsmOther, remote, char,
                   key, out, pollReady, pushed, delivered, scn>>

\* the opponent of record p is in the room with its character chosen
Ready(p) ==
    /\ NumPlayers = 2
    /\ \A o \in Records \ {p} : rec[o].Character # 0

\* stateWaitPlayers: content, err := readMessage(conn); on err
\* sendInternalError(conn); continue
WaitRead(c, m) ==
    /\ pc[c] = "waitRead"
    /\ IF m.eof
         THEN /\ \E ok \in WriteOks(c) :
                   out' = [out EXCEPT ![c] = Sent(c, ok, StatusMsg(EInternal))]
              /\ pc' = [pc EXCEPT ![c] = "fsmTop"]
              /\ pollReady' = pollReady
         ELSE /\ out' = out
              /\ pc' = [pc EXCEPT ![c] = "waitLock"]
              /\ pollReady' = [pollReady EXCEPT ![c] = Ready(fsmPlayer[c])]
    /\ UNCHANGED <<sel, players, lock, rec, alive, full, bound, fsmPlayer, fsmOther, remote,
                   char, key, pushed, delivered>>

\* WaitLock without the test otherPlayer.Character == 0
WaitLockNoCharTest(c) ==
    /\ pc[c] = "waitLock"
    /\ lock = NIL
    /\ IF NumPlayers < 2
         THEN /\ \E ok \in WriteOks(c) :
                   out' = [out EXCEPT ![c] = Sent(c, ok, StatusMsg(ENotReady))]
              /\ pc' = [pc EXCEPT ![c] = "fsmTop"]
              /\ UNCHANGED <<lock, fsmOther>>
         ELSE \E o \in RangeOther(fsmPlayer[c], fsmOther[c]) :
                /\ fsmOther' = [fsmOther EXCEPT ![c] = o]
                /\ IF FALSE
                     THEN /\ \E ok \in WriteOks(c) :
                               out' = [out EXCEPT ![c] =
                                          Sent(c, ok, StatusMsg(ENotReady))]
                          /\ pc' = [pc EXCEPT ![c] = "fsmTop"]
                          /\ lock' = NIL
                     ELSE /\ lock' = c
                          /\ pc' = [pc EXCEPT ![c] = "waitSend"]
                          /\ out' = out
    /\ UNCHANGED <<sel, players, rec, alive, full, bound, fsmPlayer, remote, char, key,
                   pollReady, pushed, delivered, scn>>

\* game.Lock(); len(game.players) < 2; the range loop;
\* otherPlayer.Character == 0; the not-ready exits unlock, then sendNotReady
WaitLock(c) ==
    /\ pc[c] = "waitLock"
    /\ lock = NIL
    /\ IF NumPlayers < 2
         THEN /\ \E ok \in WriteOks(c) :
                   out' = [out EXCEPT ![c] = Sent(c, ok, StatusMsg(ENotReady))]
              /\ pc' = [pc EXCEPT ![c] = "fsmTop"]
              /\ UNCHANGED <<lock, fsmOther>>
         ELSE \E o \in RangeOther(fsmPlayer[c], fsmOther[c]) :
                /\ fsmOther' = [fsmOther EXCEPT ![c] = o]
                /\ IF rec[o].Character = 0
                     THEN /\ \E ok \in WriteOks(c) :
                               out' = [out EXCEPT ![c] =
                                          Sent(c, ok, StatusMsg(ENotReady))]
                          /\ pc' = [pc EXCEPT ![c] = "fsmTop"]
                          /\ lock' = NIL
                     ELSE /\ lock' = c
                          /\ pc' = [pc EXCEPT ![c] = "waitSend"]
                          /\ out' = out
    /\ UNCHANGED <<sel, players, rec, alive, full, bound, fsmPlayer, remote, char, key,
                   pollReady, pushed, delivered, scn>>

\* err = sendSelectedPlayer(conn, otherPlayer) with the lock held, then
\* game.Unlock(); on err continue
WaitSend(c) ==
    /\ pc[c] = "waitSend"
    /\ \E ok \in WriteOks(c) :
         /\ out' = [out EXCEPT ![c] =
                       Sent(c, ok, SelectedMsg(rec[fsmOther[c]].Name,
                                               CharString(rec[fsmOther[c]].Character)))]
         /\ pc' = [pc EXCEPT ![c] = IF ok THEN "waitSetState" ELSE "fsmTop"]
    /\ lock' = NIL
    /\ UNCHANGED <<sel, players, rec, alive, full, bound, fsmPlayer, fsmOther, remote, char,
                   key, pollReady, pushed, delivered, scn>>

\* player.state = statePlay
WaitSetState(c) ==
    /\ pc[c] = "waitSetState"
    /\ rec' = [rec EXCEPT ![fsmPlayer[c]].state = statePlay]
    /\ pc' = [pc EXCEPT ![c] = "fsmTop"]
    /\ UNCHANGED <<sel, players, lock, alive, full, bound, fsmPlayer, fsmOther, remote, char,
                   key, out, pollReady, pushed, delivered, scn>>

\* PlayFwd with a receive that has no default case: it waits for a token
PlayFwdBlocking(c) ==
    /\ pc[c] = "playFwd"
    /\ rec[fsmOther[c]].Keys # <<>>
    /\ LET o == fsmOther[c]
           q == rec[o].Keys
       IN /\ \E ok \in WriteOks(c) :
                /\ out' = [out EXCEPT ![c] = Sent(c, ok, KeyMsg(Head(q)))]
                /\ pc' = [pc EXCEPT ![c] = IF ok THEN "fsmTop" ELSE "done"]
          /\ rec' = [rec EXCEPT ![o].Keys = Tail(q)]
          /\ delivered' = [delivered EXCEPT ![o] = Append(@, Head(q))]
    /\ UNCHANGED <<sel, players, lock, alive, full, bound, fsmPlayer, fsmOther, remote, char,
                   key, pollReady, pushed, scn>>

\* PlayFwd taking the token pushed last instead of the one pushed first
PlayFwdLifo(c) ==
    /\ pc[c] = "playFwd"
    /\ LET o == fsmOther[c]
           q == rec[o].Keys
       IN /\ \E ok \in WriteOks(c) :
                /\ out' = [out EXCEPT ![c] =
                              Sent(c, ok, KeyMsg(IF q = <<>> THEN "" ELSE q[Len(q)]))]
                /\ pc' = [pc EXCEPT ![c] = IF ok THEN "fsmTop" ELSE "done"]
          /\ IF q = <<>>
               THEN UNCHANGED <<rec, delivered>>
               ELSE /\ rec' = [rec EXCEPT ![o].Keys = SubSeq(q, 1, Len(q) - 1)]
                    /\ delivered' = [delivered EXCEPT ![o] = Append(@, q[Len(q)])]
    /\ UNCHANGED <<sel, players, lock, alive, full, bound, fsmPlayer, fsmOther, remote, char,
                   key, pollReady, pushed, scn>>

\* statePlay, remote: select { case key := <-otherPlayer.Keys: ... default: ... },
\* sendOtherPlayerKey; an error returns
PlayFwd(c) ==
    /\ pc[c] = "playFwd"
    /\ LET o == fsmOther[c]
           q == rec[o].Keys
       IN /\ \E ok \in WriteOks(c) :
                /\ out' = [out EXCEPT ![c] =
                              Sent(c, ok, KeyMsg(IF q = <<>> THEN "" ELSE Head(q)))]
                /\ pc' = [pc EXCEPT ![c] = IF ok THEN "fsmTop" ELSE "done"]
          /\ IF q = <<>>
               THEN UNCHANGED <<rec, delivered>>
               ELSE /\ rec' = [rec EXCEPT ![o].Keys = Tail(q)]
                    /\ delivered' = [delivered EXCEPT ![o] = Append(@, Head(q))]
    /\ UNCHANGED <<sel, players, lock, alive, full, bound, fsmPlayer, fsmOther, remote, char,
                   key, pollReady, pushed, scn>>

\* PlayRead going back to the top of the loop on an error
PlayReadRetry(c, m) ==
    /\ pc[c] = "playRead"
    /\ IF m.eof \/ KeyDecodeErr(m)
         THEN /\ pc' = [pc EXCEPT ![c] = "fsmTop"]
              /\ key' = key
         ELSE /\ key' = [key EXCEPT ![c] = m.key]
              /\ pc' = [pc EXCEPT ![c] = "playPush"]
    /\ UNCHANGED <<sel, players, lock, rec, alive, full, bound, fsmPlayer, fsmOther, remote,
                   char, out, pollReady, pushed, delivered>>

\* statePlay, local: key, err := getPlayerKey(conn); an error returns
PlayRead(c, m) ==
    /\ pc[c] = "playRead"
    /\ IF m.eof \/ KeyDecodeErr(m)
         THEN /\ pc' = [pc EXCEPT ![c] = "done"]
              /\ key' = key
         ELSE /\ key' = [key EXCEPT ![c] = m.key]
              /\ pc' = [pc EXCEPT ![c] = "playPush"]
    /\ UNCHANGED <<sel, players, lock, rec, alive, full, bound, fsmPlayer, fsmOther, remote,
                   char, out, pollReady, pushed, delivered>>

\* player.Keys <- key: a send on a channel of capacity 16 waits while it is full
PlayPush(c) ==
    /\ pc[c] = "playPush"
    /\ Len(rec[fsmPlayer[c]].Keys) < KeysCap
    /\ rec' = [rec EXCEPT ![fsmPlayer[c]].Keys = Append(@, key[c])]
    /\ pushed' = [pushed EXCEPT ![fsmPlayer[c]] = Append(@, key[c])]
    /\ key' = [key EXCEPT ![c] = ""]
    /\ pc' = [pc EXCEPT ![c] = "fsmTop"]
    /\ UNCHANGED <<sel, players, lock, alive, full, bound, fsmPlayer, fsmOther, remote, char,
                   out, pollReady, delivered, scn>>

\* the peer closes its end of the connection
ClientClose(c) ==
    /\ alive[c]
    /\ pc[c] # "done"
    /\ alive' = [alive EXCEPT ![c] = FALSE]
    /\ UNCHANGED <<sel, players, lock, rec, pc, full, bound, fsmPlayer, fsmOther, remote,
                   char, key, out, pollReady, pushed, delivered, scn>>

\* ------------------------------------------------- environments
\* connections are numbered in the order in which their goroutines first
\* take the lock; connection c arrives only if c <= n
Arrives(c, n) == c <= n /\ \A d \in Conns : d < c => pc[d] # "accept"

\* the client sends its next key only while fewer than n were pushed
MayPush(c, n) == pc[c] = "playRead" /\ Len(pushed[fsmPlayer[c]]) < n

\* what a client following the protocol sends at each point
ConnectFrames == {ConnectReq(n, 0) : n \in Names}
SelectFrames == {SelectReq("max"), SelectReq("drax")}
BindFrames == {BindReq(n) : n \in Names}
KeyFrames == {KeyReq(k) : k \in KeyTokens}

\* Arrivals connections; clients send any frame at any point and close at
\* any point.
Next ==
    \E c \in Conns :
       \/ (Arrives(c, Arrivals) /\ HrLock(c))
       \/ \E m \in Inputs(c) : GetPlayer(c, m) /\ UNCHANGED scn
       \/ ConnResp(c)
       \/ FsmTop(c)
       \/ \E m \in Inputs(c) : SelRead(c, m) /\ UNCHANGED scn
       \/ SelSetChar(c)
       \/ SelSetState(c)
       \/ \E m \in Inputs(c) : WaitRead(c, m) /\ UNCHANGED scn
       \/ WaitLock(c)
       \/ WaitSend(c)
       \/ WaitSetState(c)
       \/ (MayPush(c, MaxKeys) /\ \E m \in Inputs(c) : PlayRead(c, m) /\ UNCHANGED scn)
       \/ PlayPush(c)
       \/ (c <= Arrivals /\ ClientClose(c))

Spec == Init /\ [][Next]_vars

\* one frame of each kind the decoders tell apart before the keys are read
RoomMsgs ==
    ConnectFrames \cup SelectFrames \cup BindFrames \cup {PollReq, Garbage}

\* Every connection arrives; clients send any of RoomMsgs at any point, stay
\* connected, and send nothing once their session reads keys.
NextRoom ==
    \E c \in Conns :
       \/ (Arrives(c, NumConns) /\ HrLock(c))
       \/ \E m \in RoomMsgs : GetPlayer(c, m) /\ UNCHANGED scn
       \/ ConnResp(c)
       \/ \E m \in RoomMsgs : BindRead(c, m) /\ UNCHANGED scn
       \/ BindLock(c)
       \/ FsmTop(c)
       \/ \E m \in RoomMsgs : SelRead(c, m) /\ UNCHANGED scn
       \/ SelSetChar(c)
       \/ SelSetState(c)
       \/ \E m \in RoomMsgs : WaitRead(c, m) /\ UNCHANGED scn
       \/ WaitLock(c)
       \/ WaitSend(c)
       \/ WaitSetState(c)
       \/ PlayFwd(c)

SpecRoom == Init /\ [][NextRoom]_vars

\* Every connection arrives; clients follow the protocol and stay connected.
NextRelay ==
    \E c \in Conns :
       \/ (Arrives(c, NumConns) /\ HrLock(c))
       \/ \E m \in ConnectFrames : GetPlayer(c, m) /\ UNCHANGED scn
       \/ ConnResp(c)
       \/ \E m \in BindFrames : BindRead(c, m) /\ UNCHANGED scn
       \/ BindLock(c)
       \/ FsmTop(c)
       \/ \E m \in SelectFrames : SelRead(c, m) /\ UNCHANGED scn
       \/ SelSetChar(c)
       \/ SelSetState(c)
       \/ WaitRead(c, PollReq) /\ UNCHANGED scn
       \/ WaitLock(c)
       \/ WaitSend(c)
       \/ WaitSetState(c)
       \/ PlayFwd(c)
       \/ (MayPush(c, MaxKeys) /\ \E m \in KeyFrames : PlayRead(c, m) /\ UNCHANGED scn)
       \/ PlayPush(c)

SpecRelay == Init /\ [][NextRelay]_vars

\* Two connections; clients follow the protocol, stay connected and keep
\* sending the same key; nothing reads the queues.
NextFlood ==
    \E c \in Conns :
       \/ (Arrives(c, FloodConns) /\ HrLock(c))
       \/ \E m \in ConnectFrames : GetPlayer(c, m) /\ UNCHANGED scn
       \/ ConnResp(c)
       \/ FsmTop(c)
       \/ \E m \in SelectFrames : SelRead(c, m) /\ UNCHANGED scn
       \/ SelSetChar(c)
       \/ SelSetState(c)
       \/ WaitRead(c, PollReq) /\ UNCHANGED scn
       \/ WaitLock(c)
       \/ WaitSend(c)
       \/ WaitSetState(c)
       \/ PlayRead(c, KeyReq("up")) /\ UNCHANGED scn
       \/ PlayPush(c)

SpecFlood == Init /\ [][NextFlood]_vars

\* The end-to-end exchange: entry k is <<connection, frame>>; the frames are
\* read in this order, each one sent once the frame before it was answered.
Script ==
    << <<1, ConnectReq("alice", 0)>>,
       <<2, ConnectReq("bob", 0)>>,
       <<1, SelectReq("max")>>,
       <<2, PollReq>>,
       <<2, SelectReq("drax")>>,
       <<1, PollReq>>,
       <<2, PollReq>> >>
ScriptLen == Len(Script)

\* the session of connection c has written a reply, or is back at a read
Replied(c) ==
    \/ out[c] # <<>>
    \/ pc[c] \in {"fsmTop", "selRead", "waitRead", "playRead", "done"}

\* what the clients send once the exchange is over
AfterMsgs == BindFrames \cup SelectFrames \cup KeyFrames \cup {PollReq}
ScnMsgs == AfterMsgs \cup {Script[k][2] : k \in 1..ScriptLen}

\* connection c is the one whose frame m comes next
Turn(c, m) ==
    IF scn < ScriptLen
      THEN /\ Script[scn + 1] = <<c, m>>
           /\ (scn > 0 => Replied(Script[scn][1]))
           /\ scn' = scn + 1
      ELSE /\ m \in AfterMsgs
           /\ scn' = ScriptLen + 1

\* The two players run the exchange of Script; after it every client goes
\* on following the protocol and the remaining connections arrive.
NextScenario ==
    \E c \in Conns :
       \/ (Arrives(c, NumConns) /\ (c > 2 => scn >= ScriptLen) /\ HrLock(c))
       \/ \E m \in ScnMsgs : Turn(c, m) /\ GetPlayer(c, m)
       \/ ConnResp(c)
       \/ \E m \in ScnMsgs : Turn(c, m) /\ BindRead(c, m)
       \/ BindLock(c)
       \/ FsmTop(c)
       \/ \E m \in ScnMsgs : Turn(c, m) /\ SelRead(c, m)
       \/ SelSetChar(c)
       \/ SelSetState(c)
       \/ \E m \in ScnMsgs : Turn(c, m) /\ WaitRead(c, m)
       \/ WaitLock(c)
       \/ WaitSend(c)
       \/ WaitSetState(c)
       \/ PlayFwd(c)
       \/ (MayPush(c, MaxKeys) /\ \E m \in ScnMsgs : Turn(c, m) /\ PlayRead(c, m))
       \/ PlayPush(c)

SpecScenario == Init /\ [][NextScenario]_vars

\* what a read on connection c returns: a frame of F while the peer is
\* connected, the read error once it has closed
Sends(c, F) == IF alive[c] THEN F ELSE {EOF}

\* one step of the goroutine serving connection c, for clients that follow
\* the protocol
SessionStep(c) ==
    \/ (Arrives(c, Arrivals) /\ HrLock(c))
    \/ \E m \in Sends(c, ConnectFrames) : GetPlayer(c, m) /\ UNCHANGED scn
    \/ ConnResp(c)
    \/ FsmTop(c)
    \/ \E m \in Sends(c, SelectFrames) : SelRead(c, m) /\ UNCHANGED scn
    \/ SelSetChar(c)
    \/ SelSetState(c)
    \/ \E m \in Sends(c, {PollReq}) : WaitRead(c, m) /\ UNCHANGED scn
    \/ WaitLock(c)
    \/ WaitSend(c)
    \/ WaitSetState(c)
    \/ (MayPush(c, MaxKeys) /\ \E m \in Sends(c, KeyFrames) : PlayRead(c, m) /\ UNCHANGED scn)
    \/ PlayPush(c)

\* the peer closes once its player is admitted
CloseAdmitted(c) ==
    /\ c <= Arrivals
    /\ pc[c] \notin {"accept", "getPlayer", "connResp"}
    /\ ClientClose(c)

\* Arrivals connections; clients follow the protocol and may close once
\* admitted; every goroutine that can take a step is eventually scheduled.
NextClose ==
    \E c \in Conns : SessionStep(c) \/ CloseAdmitted(c)

SpecClose ==
    Init /\ [][NextClose]_vars /\ \A c \in Conns : WF_vars(SessionStep(c))

\* the peer of a forwarding session closes
CloseForwarder(c) == remote[c] /\ ClientClose(c)

\* what a player's client may send in Playing: a key, a frame that does not
\* decode, or nothing more (the read fails)
PlayFrames == KeyFrames \cup {Garbage, EOF}

\* Every connection arrives; clients follow the protocol up to Playing,
\* where reads may fail and the peers of forwarding sessions may close.
NextDrop ==
    \E c \in Conns :
       \/ (Arrives(c, NumConns) /\ HrLock(c))
       \/ \E m \in ConnectFrames : GetPlayer(c, m) /\ UNCHANGED scn
       \/ ConnResp(c)
       \/ \E m \in BindFrames : BindRead(c, m) /\ UNCHANGED scn
       \/ BindLock(c)
       \/ FsmTop(c)
       \/ \E m \in SelectFrames : SelRead(c, m) /\ UNCHANGED scn
       \/ SelSetChar(c)
       \/ SelSetState(c)
       \/ WaitRead(c, PollReq) /\ UNCHANGED scn
       \/ WaitLock(c)
       \/ WaitSend(c)
       \/ WaitSetState(c)
       \/ PlayFwd(c)
       \/ (MayPush(c, MaxKeys) /\ \E m \in PlayFrames : PlayRead(c, m) /\ UNCHANGED scn)
       \/ PlayPush(c)
       \/ CloseForwarder(c)

SpecDrop == Init /\ [][NextDrop]_vars

\* ------------------------------------------------- properties
Range(q) == {q[i] : i \in 1..Len(q)}

\* C1: the map never holds more than 2 records, and a connection that found
\* the room holding 2 records never has a record of its own in the map.
C1_AtMostTwoRecords ==
    /\ NumPlayers <= 2
    /\ \A c \in Conns : full[c] => c \notin Records /\ rec[c] = ZeroPlayer

C1_Witness ==
    /\ NumPlayers = 2
    /\ \E c \in Conns : full[c] /\ remote[c] /\ pc[c] = "waitRead"

C3_RoleByInsertionOrder ==
    [][\A c \in Conns :
          /\ (pc[c] = "getPlayer" /\ pc'[c] = "connResp") =>
                 /\ players'[rec'[c].Name] = c
                 /\ (NumPlayers = 0 => rec'[c].Left)
                 /\ (NumPlayers = 1 /\ players[rec'[c].Name] = NIL => ~rec'[c].Left)
          /\ (pc[c] = "connResp" /\ pc'[c] = "fsmTop") =>
                 out'[c] = <<ConnectMsg(rec[c].Left)>>
          /\ (pc[c] \notin {"accept", "getPlayer"}) => rec'[c].Left = rec[c].Left
      ]_vars

C3_Witness ==
    \E c, d \in Conns :
        /\ players[rec[c].Name] = c /\ players[rec[d].Name] = d /\ c # d
        /\ rec[c].Left /\ ~rec[d].Left
        /\ rec[c].state = stateWaitPlayers
        /\ pc[d] = "fsmTop" /\ out[d] = <<ConnectMsg(FALSE)>>

\* a frame getPlayerCharSelect accepts
SelValid(m) == ~m.eof /\ m.json /\ m.charStr \in {"max", "drax"}

\* C4 as stated: once the SelectError status is written in answer to a
\* selection, it stays the only reply of that round, the player stays in
\* Selecting and its character is not written.
C4_InvalidSelectionStays ==
    [][\A c \in Conns :
          StatusMsg(ESelect) \in Range(out'[c]) =>
              /\ out'[c] = <<StatusMsg(ESelect)>>
              /\ rec'[fsmPlayer[c]].state = stateSelect
              /\ rec'[fsmPlayer[c]].Character = rec[fsmPlayer[c]].Character
      ]_vars

\* C5: a session that read "max" or "drax" in Selecting sends no error,
\* writes exactly that character into the player's record with one write,
\* sends Success, and then writes the state Waiting and nothing else.
C5_ValidSelection ==
    [][\A c \in Conns :
          /\ (pc[c] = "selRead" /\ pc'[c] = "selSetChar" /\ SelValid(sel'[c])) =>
                 rec' = rec /\ out'[c] = <<>>
          /\ (pc[c] = "selSetChar" /\ pc'[c] = "selSetState" /\ SelValid(sel[c])) =>
                 /\ rec' = [rec EXCEPT ![fsmPlayer[c]].Character =
                                IF sel[c].charStr = "max" THEN Max ELSE Drax]
                 /\ (alive[c] => out'[c] = <<StatusMsg(ESuccess)>>)
          /\ (pc[c] = "selSetState" /\ pc'[c] = "fsmTop") =>
                 rec' = [rec EXCEPT ![fsmPlayer[c]].state = stateWaitPlayers]
      ]_vars

C5_Witness ==
    \E c \in Conns :
        /\ pc[c] = "fsmTop" /\ ~remote[c] /\ out[c] = <<StatusMsg(ESuccess)>>
        /\ rec[c].state = stateWaitPlayers /\ rec[c].Character = Max

\* C6: a record's state becomes Playing only by the session that, holding
\* the lock without a break from the test to the reply, found 2 records in
\* the room and a non-zero character in the other one, and replied with that
\* record's name and character; a poll served while the room holds fewer
\* than 2 records or no other record has a character is answered NotReady
\* and changes no record.
C6_ReadinessUnderLock ==
    [][\A c \in Conns :
          /\ (\A r \in Conns :
                (rec'[r].state = statePlay /\ rec[r].state # statePlay) =>
                    \E d \in Conns : /\ pc[d] = "waitSetState" /\ pc'[d] = "fsmTop"
                                     /\ fsmPlayer[d] = r)
          /\ (pc'[c] = "waitSetState" /\ pc[c] # "waitSetState") =>
                 /\ pc[c] = "waitSend" /\ lock = c /\ lock' = NIL
                 /\ out'[c] = <<SelectedMsg(rec[fsmOther[c]].Name,
                                            CharString(rec[fsmOther[c]].Character))>>
          /\ (pc'[c] = "waitSend" /\ pc[c] # "waitSend") =>
                 /\ pc[c] = "waitLock" /\ lock = NIL /\ lock' = c
                 /\ NumPlayers = 2
                 /\ fsmOther'[c] \in Records \ {fsmPlayer[c]}
                 /\ rec[fsmOther'[c]].Character # 0
          /\ (pc[c] = "waitSend" /\ pc'[c] = "waitSend") => lock' = c
          /\ (/\ pc[c] = "waitLock" /\ pc'[c] # "waitLock"
              /\ (NumPlayers < 2
                  \/ \A o \in Records \ {fsmPlayer[c]} : rec[o].Character = 0)) =>
                 /\ pc'[c] = "fsmTop" /\ rec' = rec
                 /\ (alive[c] => out'[c] = <<StatusMsg(ENotReady)>>)
      ]_vars

C6_Witness ==
    \E c \in Conns :
        /\ pc[c] = "fsmTop" /\ rec[fsmPlayer[c]].state = statePlay
        /\ Len(out[c]) = 1 /\ out[c][1].kind = "select"

\* C7 as stated: a poll read while the room holds 2 records and the
\* opponent's character is set is answered with the opponent's name and
\* character and code Success, and moves the player to Playing; the session
\* serving it is never left waiting for a lock that nobody will release.
C7_NextPollAnswered ==
    \A c \in Conns :
        (pollReady[c] /\ alive[c]) =>
            /\ (pc[c] = "fsmTop" =>
                   /\ Len(out[c]) = 1
                   /\ out[c][1].kind = "select" /\ out[c][1].code = ESuccess
                   /\ out[c][1].character \in {"max", "drax"}
                   /\ rec[fsmPlayer[c]].state = statePlay)
            /\ (pc[c] = "waitLock" /\ lock # NIL => pc[lock] # "done")

\* the replies the exchange is stated to get, entry by entry
Expected ==
    << <<ConnectMsg(TRUE)>>,
       <<ConnectMsg(FALSE)>>,
       <<StatusMsg(ESuccess)>>,
       <<StatusMsg(ENotReady)>>,
       <<StatusMsg(ESuccess)>>,
       <<SelectedMsg("bob", "drax")>> >>

\* the last entry of Script that connection c has read
LastRead(c) ==
    LET done == {k \in 1..ScriptLen : k <= scn /\ Script[k][1] = c}
    IN IF done = {} THEN 0 ELSE CHOOSE k \in done : \A j \in done : j <= k

\* C8 as stated: in the exchange of Script alice's connect is answered
\* left = true, bob's left = false, alice's "max" Success, bob's poll before
\* selecting NotReady, bob's "drax" Success, alice's next poll {bob, drax,
\* Success}; and once bob has polled again both records are in Playing with
\* the characters Max and Drax.
C8_ScenarioAsStated ==
    /\ \A c \in Conns :
          (scn <= ScriptLen /\ pc[c] = "fsmTop" /\ LastRead(c) \in 1..Len(Expected)) =>
              out[c] = Expected[LastRead(c)]
    /\ (scn = ScriptLen /\ \A c \in {1, 2} : pc[c] \in {"selRead", "waitRead", "playRead"}) =>
          /\ rec[1].state = statePlay /\ rec[1].Character = Max
          /\ rec[2].state = statePlay /\ rec[2].Character = Drax

\* C9: the tokens a forwarding session has taken from a queue, followed by
\* the tokens still in it, are the tokens pushed onto it, in the order
\* pushed; a key reply carries the empty token or a token pushed onto the
\* queue the session reads.
C9_RelayFifo ==
    /\ \A r \in Conns : delivered[r] \o rec[r].Keys = pushed[r]
    /\ \A c \in Conns :
          (remote[c] /\ pc[c] = "fsmTop" /\ out[c] # <<>> /\ out[c][1].kind = "key") =>
              out[c][1].key \in {""} \cup Range(pushed[fsmOther[c]])

C9_Witness ==
    \E c, r \in Conns :
        /\ remote[c] /\ fsmOther[c] = r /\ pc[c] = "fsmTop"
        /\ Len(delivered[r]) = 2 /\ delivered[r][1] # delivered[r][2]
        /\ out[c] = <<KeyMsg(delivered[r][2])>>

\* C10 as stated: a local session that has read a key is never held at the
\* push: the queue it pushes onto has room.
C10_PushNeverBlocks ==
    \A c \in Conns :
        pc[c] = "playPush" => Len(rec[fsmPlayer[c]].Keys) < KeysCap

\* C11: a forwarding session in Playing can always take its round, whatever
\* the queue holds; the round sends exactly one key message, carrying the
\* head of the queue (which it removes) or the empty token when the queue is
\* empty (which it leaves alone).
C11_ForwardRound ==
    /\ [](\A c \in Conns : pc[c] = "playFwd" => ENABLED PlayFwd(c))
    /\ [][\A c \in Conns :
            (pc[c] = "playFwd" /\ pc'[c] # "playFwd") =>
                LET q == rec[fsmOther[c]].Keys
                IN /\ out[c] = <<>>
                   /\ (alive[c] =>
                          /\ pc'[c] = "fsmTop"
                          /\ out'[c] = <<KeyMsg(IF q = <<>> THEN "" ELSE Head(q))>>)
                   /\ rec'[fsmOther[c]].Keys = (IF q = <<>> THEN <<>> ELSE Tail(q))
      ]_vars

C11_Witness ==
    \E c \in Conns :
        /\ remote[c] /\ pc[c] = "fsmTop" /\ out[c] = <<KeyMsg("")>>
        /\ delivered[fsmOther[c]] # <<>> /\ rec[fsmOther[c]].Keys = <<>>

\* C12 as stated: a goroutine that has returned does not hold the room lock,
\* whatever failed during its admission.
C12_LockReleasedOnFailure ==
    \A c \in Conns : pc[c] = "done" => lock # c

\* C13 as stated: a session whose peer has closed the connection eventually
\* returns.
C13_ClosedSessionTerminates ==
    \A c \in Conns : (~alive[c]) ~> (pc[c] = "done")

\* the record r without its queue
Fields(r) == [Name |-> r.Name, Character |-> r.Character, Left |-> r.Left,
              state |-> r.state]

\* C14 as stated: a session in Playing that meets an error returns at once
\* and that step changes neither the map nor any record.
C14_PlayErrorChangesNothing ==
    [][\A c \in Conns :
          /\ (pc[c] = "playRead" /\ pc'[c] # "playRead") =>
                 /\ pc'[c] \in {"done", "playPush"}
                 /\ (pc'[c] = "done" => players' = players /\ rec' = rec)
          /\ (pc[c] = "playFwd" /\ pc'[c] # "playFwd" /\ out'[c] = out[c]) =>
                 /\ pc'[c] = "done"
                 /\ players' = players /\ rec' = rec
      ]_vars

\* C14 amended: a session in Playing that meets an error returns at once,
\* with no retry; that step leaves the map and the name, character, role and
\* state of every record as they are; a local session's failed read leaves
\* the queues as they are too, and a forwarding session's failed write loses
\* the token it had taken from the head of the queue, and nothing else.
C14_PlayErrorTerminates ==
    [][\A c \in Conns :
          /\ (pc[c] = "playRead" /\ pc'[c] # "playRead") =>
                 /\ pc'[c] \in {"done", "playPush"}
                 /\ (pc'[c] = "done" => players' = players /\ rec' = rec)
          /\ (pc[c] = "playFwd" /\ pc'[c] # "playFwd" /\ out'[c] = out[c]) =>
                 /\ pc'[c] = "done"
                 /\ players' = players
                 /\ \A r \in Conns :
                       /\ Fields(rec'[r]) = Fields(rec[r])
                       /\ rec'[r].Keys =
                              (IF r = fsmOther[c] /\ rec[r].Keys # <<>>
                                 THEN Tail(rec[r].Keys) ELSE rec[r].Keys)
      ]_vars

C14_Witness ==
    \E c, d \in Conns :
        /\ remote[c] /\ pc[c] = "done" /\ out[c] = <<>>
        /\ rec[fsmPlayer[c]].state = statePlay
        /\ delivered[fsmOther[c]] # <<>>
        /\ ~remote[d] /\ pc[d] = "done" /\ rec[d].state = statePlay

\* C15 as stated: the goroutine that holds the room lock is never at a
\* socket read (getPlayer) or a socket write (the connect response, the
\* opponent's identity).
C15_NoSocketIoUnderLock ==
    \A c \in Conns :
        lock = c => pc[c] \notin {"getPlayer", "connResp", "waitSend"}

\* C16 as stated: the state and the character of the record built by
\* connection r change only in steps of the goroutine serving r; a step of
\* a connection that found the room full changes no record's state or
\* character.
C16_OwnerWritesOnly ==
    [][\A r \in Conns :
          (rec'[r].state # rec[r].state \/ rec'[r].Character # rec[r].Character) =>
              /\ pc'[r] # pc[r]
              /\ \A c \in Conns : full[c] => pc'[c] = pc[c]
      ]_vars

\* C17 as stated: a record's character, once Max or Drax, is changed by no
\* later step.
C17_CharacterImmutable ==
    [][\A r \in Conns :
          rec[r].Character \in {Max, Drax} => rec'[r].Character = rec[r].Character
      ]_vars

\* C18 as stated: a non-empty token that a forwarding session bound to X
\* has sent was pushed onto the queue of X's opponent.  (BindLock: X is
\* fsmOther[c], the other occupant is fsmPlayer[c].)
C18_RelaysOpponentQueue ==
    \A c \in Conns :
        (/\ remote[c] /\ pc[c] = "fsmTop" /\ out[c] # <<>>
         /\ out[c][1].kind = "key" /\ out[c][1].key # "") =>
            out[c][1].key \in Range(pushed[fsmPlayer[c]])

\* C19 as stated: the state of a record that a connection has built never
\* decreases along Selecting < Waiting < Playing.
C19_StateMovesForward ==
    [][\A r \in Conns :
          rec[r].state # 0 => rec'[r].state >= rec[r].state
      ]_vars

\* the connections admitted as players: runFSM(game, &player, nil, conn, false)
\* was started for them
LocalConns == {c \in Conns : fsmPlayer[c] = c /\ ~remote[c]}

\* C20 as stated: at most one connection was answered left = true and at
\* most two connections were admitted as players.
C20_OneHostTwoPlayers ==
    /\ Cardinality({c \in LocalConns : rec[c].Left}) <= 1
    /\ Cardinality(LocalConns) <= 2

\* C20 amended: the connections admitted as players carry at most two
\* names; all those answered left = true carry the same name, and two
\* admitted connections with one name got the same answer: a connection
\* that repeats the only admitted name is admitted again, as one more
\* player, and is answered left = true again.
C20_OneHostNameTwoNames ==
    /\ Cardinality({rec[c].Name : c \in LocalConns}) <= 2
    /\ \A c, d \in LocalConns :
          /\ (rec[c].Left /\ rec[d].Left => rec[c].Name = rec[d].Name)
          /\ (rec[c].Name = rec[d].Name => rec[c].Left = rec[d].Left)

C20_Witness ==
    \E c, d, e \in LocalConns :
        /\ c # d /\ rec[c].Left /\ rec[d].Left /\ rec[c].Name = "alice"
        /\ ~rec[e].Left /\ rec[e].Name = "bob"
        /\ rec[c].state = statePlay /\ rec[e].state = statePlay

====
